---------------------------- MODULE Spec2Model ----------------------------
(***************************************************************************)
(* Donor-widow relationship resolution and network-graph construction of   *)
(* the Omri Association dashboard.                                         *)
(*   create_network_section  (src/ui/dashboard_sections.py)                *)
(*   create_network_graph    (src/modules/graph_builder.py)                *)
(*                                                                         *)
(* Text is a sequence of one-character strings.  The Hebrew letters of the *)
(* source are written by their names ("het", "bet", ...), the ASCII        *)
(* characters as themselves.  NaN and None are one-element sequences whose *)
(* element is no character of the alphabet.                                *)
(***************************************************************************)
EXTENDS Integers, Sequences, FiniteSets, TLC

(***************************************************************************)
(* Bounds of the model.                                                    *)
(***************************************************************************)
\* rows of almanot_df read by one call of create_network_section
MaxRows == 2
\* rows of the contribution ledger donations_df['שם']
MaxLedger == 2
\* size of the candidate set handed to the matcher on its own
MaxCands == 3
\* rows of real_widows_df read by one call of create_network_graph
MaxRealRows == 2

(***************************************************************************)
(* Text values and the str methods the source uses.                        *)
(***************************************************************************)
NaN == <<"NaN">>
None == <<"None">>

\* the characters of the model in code-point order (list order of sorted())
Alphabet ==
    <<" ", "quote", ".", "A", "B", "a", "b", "z",
      "bet", "he", "vav", "het", "mem", "ayin", "resh", "tav">>

CharRank(c) == CHOOSE k \in 1..Len(Alphabet) : Alphabet[k] = c

IsSpace(c) == c = " "

\* str.lower(): only the cased letters change
LowerChar(c) == CASE c = "A" -> "a" [] c = "B" -> "b" [] OTHER -> c

Lower(s) == [k \in 1..Len(s) |-> LowerChar(s[k])]

RECURSIVE LStrip(_)
LStrip(s) == IF s # <<>> /\ IsSpace(Head(s)) THEN LStrip(Tail(s)) ELSE s

RECURSIVE RStrip(_)
RStrip(s) ==
    IF s # <<>> /\ IsSpace(s[Len(s)]) THEN RStrip(SubSeq(s, 1, Len(s) - 1)) ELSE s

\* Strip taking one character of whitespace from each end
StripOnce(s) ==
    LET l == IF s # <<>> /\ IsSpace(Head(s)) THEN Tail(s) ELSE s
    IN  IF l # <<>> /\ IsSpace(l[Len(l)]) THEN SubSeq(l, 1, Len(l) - 1) ELSE l

\* str.strip()
Strip(s) == RStrip(LStrip(s))

\* a in b  (substring test of str.__contains__)
Contains(a, b) ==
    \E k \in 0..(Len(b) - Len(a)) : SubSeq(b, k + 1, k + Len(a)) = a

\* s.replace(tok, ''): leftmost non-overlapping occurrences, one pass
RECURSIVE Remove(_, _)
Remove(s, tok) ==
    IF Len(s) < Len(tok) THEN s
    ELSE IF SubSeq(s, 1, Len(tok)) = tok
         THEN Remove(SubSeq(s, Len(tok) + 1, Len(s)), tok)
         ELSE <<Head(s)>> \o Remove(Tail(s), tok)

\* re.sub(r'\.\s*', '', s): every dot goes with the whitespace that follows it
RECURSIVE RemoveDots(_)
RemoveDots(s) ==
    IF s = <<>> THEN s
    ELSE IF Head(s) = "." THEN RemoveDots(LStrip(Tail(s)))
         ELSE <<Head(s)>> \o RemoveDots(Tail(s))

\* the organisational-suffix tokens of the matcher, in the order removed
BAAM == <<"bet", "ayin", "quote", "mem">>
AMUTAT == <<"ayin", "mem", "vav", "tav", "tav">>
HEVRA == <<"het", "bet", "resh", "he">>

StripSuffixes(s) == Strip(Remove(Remove(Remove(s, BAAM), AMUTAT), HEVRA))

\* str(x): a str is itself, the float nan is 'nan'
Str(x) == IF x = NaN THEN <<"n", "a", "n">> ELSE x

\* str(x).strip(): the normalisation of candidate and declared names
Normalize(raw) == Strip(Str(raw))

\* truthiness of a str-or-None value: None and '' are falsy
Truthy(m) == m # None /\ m # <<>>

(***************************************************************************)
(* sorted() of a set of names: ascending by code point, a prefix first.    *)
(***************************************************************************)
RECURSIVE TextLess(_, _)
TextLess(a, b) ==
    IF b = <<>> THEN FALSE
    ELSE IF a = <<>> THEN TRUE
    ELSE IF Head(a) = Head(b) THEN TextLess(Tail(a), Tail(b))
    ELSE CharRank(Head(a)) < CharRank(Head(b))

RECURSIVE Sorted(_)
Sorted(S) ==
    IF S = {} THEN <<>>
    ELSE LET m == CHOOSE x \in S : \A y \in S \ {x} : TextLess(x, y)
         IN  <<m>> \o Sorted(S \ {m})

\* the iteration orders a set can have
Orders(S) ==
    {f \in [1..Cardinality(S) -> S] : \A a, b \in 1..Cardinality(S) : f[a] = f[b] => a = b}

Range(f) == {f[k] : k \in DOMAIN f}

SeqsUpTo(S, n) == UNION {[1..k -> S] : k \in 0..n}

(***************************************************************************)
(* Input pools.                                                            *)
(***************************************************************************)
\* names of the contribution ledger donations_df['שם']
DonorPool ==
    { <<"a", "b">>,
      <<"a", "b", "het", "bet", "resh", "he">>,
      <<" ">>,
      <<"A", "B">>,
      NaN }

\* names of the secondary ledger investors_df['שם']
InvestorPool == { <<" ", "a", "b">> }

\* declared contributor names almanot_df['תורם']
DeclaredPool ==
    { NaN,
      <<"a", "b", " ">>,
      <<"A", "B">>,
      <<"a", ".", "b">>,
      <<"a", "b", "ayin", "mem", "vav", "tav", "tav">>,
      <<"z">>,
      <<>> }

\* candidate sets the matcher is checked against on its own
CandidatePool == {Normalize(x) : x \in (DonorPool \cup InvestorPool) \ {NaN}}

\* beneficiary names almanot_df['שם ']
WidowPool == { NaN, <<"a", "b">>, <<"z">> }

\* a cell of almanot_df['סכום חודשי']
Cell(k, n, t) == [kind |-> k, num |-> n, text |-> t]
NaNCell == Cell("nan", 0, "")
NumCell(n) == Cell("num", n, "")
StrCell(t) == Cell("str", 0, t)

SupportPool ==
    { NaNCell, StrCell(""), StrCell("abc"), StrCell("1000"),
      NumCell(0), NumCell(-1000), NumCell(1000) }


(***************************************************************************)
(* State.                                                                  *)
(***************************************************************************)
VARIABLES
    \* create_network_section
    pc,                 \* position in create_network_section
    hasSupportCol,      \* 'סכום חודשי' in almanot_df.columns
    all_donors,         \* candidate set
    donor_name_mapping, \* normalised name -> original name
    order,              \* iteration order of the set all_donors in this process
    connected_donors,
    connected_widows,
    unconnected_donors,
    unconnected_widows,
    edges,
    nodes,
    widow_name,         \* locals of the loop body after the row read last
    matched_donor,
    monthly_support,
    rows_read,          \* number of rows of almanot_df read so far
    shown,              \* what the section displays: "graph", "nodata", "error"
    hist_matched,       \* history: matcher results of the rows with support > 0
    hist_names,         \* history: the non-null beneficiary names read so far
    \* one row of the loop body of create_network_section, on its own
    m_pc,
    m_donor,            \* widow.get('תורם')
    m_original,         \* the caller's cell of 'סכום חודשי' at the call
    m_cell,             \* the same cell of the caller's table now
    m_hasCol,           \* 'סכום חודשי' in almanot_df.columns
    m_cands,            \* all_donors
    m_order,            \* iteration order of all_donors
    m_matched,          \* matched_donor
    m_support,          \* monthly_support
    m_connected,        \* the row took the connected branch
    \* create_network_graph
    g_pc,               \* position in create_network_graph
    donations_df_clean,
    donor_connections,
    donor_nodes,        \* keys of the dict donor_nodes
    widow_nodes,        \* keys of the dict widow_nodes
    g_nodes,            \* the local list nodes
    g_edges,            \* the local list edges
    connections_count,
    g_rows,             \* number of rows of real_widows_df read so far
    g_raised,           \* where an exception was caught: "none", "table", "row"
    g_result,           \* the value returned
    \* the name pipeline of create_network_section, on one declared name
    t_pc,
    t_raw,              \* widow.get('תורם')
    t_ledger,           \* the one name of donations_df['שם']
    t_key,              \* donor_str
    t_clean,            \* clean_donor of the suffix-stripping loop
    t_matched,          \* matched_donor
    \* the edge of one row of real_widows_df in create_network_graph
    e_pc,
    e_donations,        \* donor_donations: the rows of the contributor
    e_last,             \* last_row
    e_edge

svars ==
    <<pc, hasSupportCol, all_donors, donor_name_mapping, order, connected_donors, connected_widows,
      unconnected_donors, unconnected_widows, edges, nodes, widow_name,
      matched_donor, monthly_support, rows_read, shown, hist_matched,
      hist_names>>

mvars ==
    <<m_pc, m_donor, m_original, m_cell, m_hasCol, m_cands, m_order,
      m_matched, m_support, m_connected>>

gvars ==
    <<g_pc, donations_df_clean, donor_connections, donor_nodes, widow_nodes,
      g_nodes, g_edges, connections_count, g_rows, g_raised, g_result>>

tvars == <<t_pc, t_raw, t_ledger, t_key, t_clean, t_matched>>

evars == <<e_pc, e_donations, e_last, e_edge>>

vars == <<svars, mvars, gvars, tvars, evars>>

(***************************************************************************)
(* create_network_section: the candidate set.                              *)
(***************************************************************************)
\* Series.dropna()
DropNa(col) == SelectSeq(col, LAMBDA x : x # NaN)

\* Series.unique(): first occurrences, in order of appearance
RECURSIVE Unique(_)
Unique(col) ==
    IF col = <<>> THEN <<>>
    ELSE LET init == Unique(SubSeq(col, 1, Len(col) - 1))
             x == col[Len(col)]
         IN  IF x \in Range(init) THEN init ELSE Append(init, x)

\* the names one ledger adds to all_donors
LedgerDonors(col) == {Normalize(x) : x \in Range(Unique(DropNa(col)))}

\* donor_name_mapping[normalized] = str(donor), the last assignment standing
RECURSIVE LedgerMapping(_, _)
LedgerMapping(names, mapping) ==
    IF names = <<>> THEN mapping
    ELSE LET n == Normalize(Head(names))
             m == [k \in DOMAIN mapping \cup {n} |->
                      IF k = n THEN Head(names) ELSE mapping[k]]
         IN  LedgerMapping(Tail(names), m)

(***************************************************************************)
(* create_network_section: the monthly support of a row.                   *)
(***************************************************************************)
\* float(text) / the parser of pd.to_numeric on the texts of SupportPool
ParseNumber(t) == IF t = "1000" THEN NumCell(1000) ELSE NaNCell

\* pd.to_numeric(column, errors='coerce').fillna(0), cell by cell
ToNumericFillna(cell) ==
    LET coerced == CASE cell.kind = "num" -> cell
                     [] cell.kind = "str" -> ParseNumber(cell.text)
                     [] OTHER -> NaNCell
    IN  IF coerced.kind = "nan" THEN NumCell(0) ELSE coerced

\* the cell widow.get('סכום חודשי') returns
SupportCell(original, hasCol) ==
    IF hasCol THEN ToNumericFillna(original) ELSE NaNCell

\* the resolved monthly_support of the loop body
ResolveSupport(cell) ==
    IF cell.kind = "nan" \/ (cell.kind = "str" /\ cell.text = "")
       \/ (cell.kind = "num" /\ cell.num = 0)
    THEN 0
    ELSE IF cell.kind = "num" THEN cell.num
    ELSE LET parsed == ParseNumber(cell.text)
         IN  IF parsed.kind = "nan" THEN 0 ELSE parsed.num

(***************************************************************************)
(* create_network_section: the matcher.                                    *)
(***************************************************************************)
\* the test of the partial-matching loop
PartialTest(q, c) == Contains(q, c) \/ Contains(c, q) \/ Lower(q) = Lower(c)

Tier2(q, c) == PartialTest(q, c)

Tier3(q, c) == PartialTest(StripSuffixes(q), StripSuffixes(c))

Tier4(q, c) == PartialTest(RemoveDots(q), RemoveDots(c))

\* for potential_donor in all_donors: if test: matched_donor = potential_donor; break
\* (passing: the candidates that pass the test of the loop)
FirstIn(ord, passing, before) ==
    LET hits == {k \in DOMAIN ord : ord[k] \in passing}
    IN  IF hits = {} THEN before
        ELSE ord[CHOOSE k \in hits : \A j \in hits : k <= j]

\* Matcher without the exact test of line 281: the partial loops decide alone
MatcherPartialOnly(donor, cands, ord) ==
    IF donor = NaN THEN None
    ELSE LET donor_str == Normalize(donor)
             m2 == FirstIn(ord, {c \in cands : Tier2(donor_str, c)}, None)
             m3 == IF Truthy(m2) THEN m2
                   ELSE FirstIn(ord, {c \in cands : Tier3(donor_str, c)}, m2)
         IN  IF Truthy(m3) THEN m3
             ELSE FirstIn(ord, {c \in cands : Tier4(donor_str, c)}, m3)

\* matched_donor after the matching block of one row
Matcher(donor, cands, ord) ==
    IF donor = NaN THEN None
    ELSE LET donor_str == Normalize(donor)
             m2 == FirstIn(ord, {c \in cands : Tier2(donor_str, c)}, None)
             m3 == IF Truthy(m2) THEN m2
                   ELSE FirstIn(ord, {c \in cands : Tier3(donor_str, c)}, m2)
             m4 == IF Truthy(m3) THEN m3
                   ELSE FirstIn(ord, {c \in cands : Tier4(donor_str, c)}, m3)
         IN  IF donor_str \in cands THEN donor_str ELSE m4

\* the branch test without its support half
IsConnectedPairAnySupport(matched, support) == Truthy(matched)

\* the branch test with "or" for "and"
IsConnectedPairEither(matched, support) == Truthy(matched) \/ support > 0

\* if matched_donor and monthly_support > 0
IsConnectedPair(matched, support) == Truthy(matched) /\ support > 0

(***************************************************************************)
(* create_network_section: the node list.                                  *)
(***************************************************************************)
NodesOf(names, group) ==
    [k \in 1..Len(names) |-> [id |-> names[k], label |-> names[k], group |-> group]]

\* NodeList without the loops of lines 365-379
NodeListUnconnectedOnly(uw, cd, cw, ud) ==
    NodesOf(Sorted(uw), "widow_unconnected")
    \o NodesOf(Sorted(ud), "donor_unconnected")

NodeList(uw, cd, cw, ud) ==
    NodesOf(Sorted(uw), "widow_unconnected")
    \o NodesOf(Sorted(cd), "donor_connected")
    \o NodesOf(Sorted(cw), "widow_connected")
    \o NodesOf(Sorted(ud), "donor_unconnected")

\* Display with the test "if nodes"
DisplayIfNodes(ns, es) == IF ns # <<>> THEN "graph" ELSE "nodata"

\* if nodes and edges: ... else: st.info(no data)
Display(ns, es) == IF ns # <<>> /\ es # <<>> THEN "graph" ELSE "nodata"

(***************************************************************************)
(* create_network_section: the steps.                                      *)
(***************************************************************************)
SectionInit ==
    /\ pc = "start"
    /\ hasSupportCol \in BOOLEAN
    /\ all_donors = {}
    /\ donor_name_mapping = <<>>
    /\ order = <<>>
    /\ connected_donors = {}
    /\ connected_widows = {}
    /\ unconnected_donors = {}
    /\ unconnected_widows = {}
    /\ edges = <<>>
    /\ nodes = <<>>
    /\ widow_name = NaN
    /\ matched_donor = None
    /\ monthly_support = 0
    /\ rows_read = 0
    /\ shown = "nothing"
    /\ hist_matched = {}
    /\ hist_names = {}

\* lines 232-254: the candidate set of both ledgers.  donations_df and
\* investors_df are the 'שם' columns of the two ledgers, in row order.
BuildDonors ==
    /\ pc = "start"
    /\ \E donations_df \in SeqsUpTo(DonorPool, MaxLedger),
          investors_df \in SeqsUpTo(InvestorPool, 1) :
         LET names == Unique(DropNa(donations_df)) \o Unique(DropNa(investors_df))
         IN  /\ all_donors' = LedgerDonors(donations_df) \cup LedgerDonors(investors_df)
             /\ donor_name_mapping' = LedgerMapping(names, <<>>)
    /\ order' \in Orders(all_donors')
    /\ pc' = "rows"
    /\ UNCHANGED <<hasSupportCol, connected_donors, connected_widows,
                   unconnected_donors, unconnected_widows, edges, nodes,
                   widow_name, matched_donor, monthly_support, rows_read,
                   shown, hist_matched, hist_names>>
    /\ UNCHANGED <<mvars, gvars, tvars, evars>>

\* lines 258-337: one iteration of for _, widow in almanot_df.iterrows().
\* The label of an edge is kept as the amount it formats.
RowStep(name, matched, support) ==
    /\ widow_name' = name
    /\ rows_read' = rows_read + 1
    /\ IF name = NaN
       THEN UNCHANGED <<matched_donor, monthly_support, connected_donors,
                        connected_widows, unconnected_widows, edges, hist_matched,
                        hist_names>>
       ELSE /\ matched_donor' = matched
            /\ hist_names' = hist_names \cup {name}
            /\ monthly_support' = support
            /\ hist_matched' =
                   IF support > 0 /\ matched # None
                   THEN hist_matched \cup {matched} ELSE hist_matched
            /\ IF IsConnectedPair(matched, support)
               THEN /\ connected_donors' = connected_donors \cup {matched}
                    /\ connected_widows' = connected_widows \cup {name}
                    /\ edges' = Append(edges, [from |-> matched, to |-> name,
                                               label |-> support])
                    /\ UNCHANGED unconnected_widows
               ELSE /\ unconnected_widows' = unconnected_widows \cup {name}
                    /\ UNCHANGED <<connected_donors, connected_widows, edges>>

ProcessRow ==
    /\ pc = "rows"
    /\ rows_read < MaxRows
    /\ \E donor \in DeclaredPool :
         LET matched == Matcher(donor, all_donors, order)
         IN  \E original \in SupportPool :
               LET support == ResolveSupport(SupportCell(original, hasSupportCol))
               IN  /\ hasSupportCol \/ original = NaNCell
                   /\ \E name \in WidowPool : RowStep(name, matched, support)
    /\ UNCHANGED <<pc, hasSupportCol, all_donors,
                   donor_name_mapping, order, unconnected_donors, nodes, shown>>
    /\ UNCHANGED <<mvars, gvars, tvars, evars>>

\* lines 341-393, 535-539: the rest of the call, after the last row.  The
\* debug output of lines 344-351 reads the support column without the test
\* of line 222; the columns 'שם ' and 'תורם' are taken to exist.
Finish ==
    /\ pc = "rows"
    /\ unconnected_donors' = all_donors \ connected_donors
    /\ IF hasSupportCol
       THEN /\ nodes' = NodeList(unconnected_widows, connected_donors,
                                 connected_widows, unconnected_donors')
            /\ shown' = Display(nodes', edges)
            /\ pc' = "done"
       ELSE \* almanot_df['סכום חודשי'] raises KeyError, caught at line 538
            /\ nodes' = nodes
            /\ shown' = "error"
            /\ pc' = "failed"
    /\ UNCHANGED <<hasSupportCol, all_donors,
                   donor_name_mapping, order, connected_donors, connected_widows,
                   unconnected_widows, edges, widow_name, matched_donor,
                   monthly_support, rows_read, hist_matched, hist_names>>
    /\ UNCHANGED <<mvars, gvars, tvars, evars>>

SectionNext == BuildDonors \/ ProcessRow \/ Finish

SectionIdle ==
    /\ pc = "idle"
    /\ hasSupportCol = TRUE
    /\ all_donors = {}
    /\ donor_name_mapping = <<>>
    /\ order = <<>>
    /\ connected_donors = {}
    /\ connected_widows = {}
    /\ unconnected_donors = {}
    /\ unconnected_widows = {}
    /\ edges = <<>>
    /\ nodes = <<>>
    /\ widow_name = NaN
    /\ matched_donor = None
    /\ monthly_support = 0
    /\ rows_read = 0
    /\ shown = "nothing"
    /\ hist_matched = {}
    /\ hist_names = {}

(***************************************************************************)
(* One row of the loop body (lines 261-337) on its own, with the rewrite   *)
(* of its support cell (lines 222-223): the matcher, the support           *)
(* resolution and the branch taken, for every declared name, cell,         *)
(* candidate set and iteration order of the pools.                         *)
(***************************************************************************)
MatchIdle ==
    /\ m_pc = "idle"
    /\ m_donor = NaN
    /\ m_original = NaNCell
    /\ m_cell = NaNCell
    /\ m_hasCol = TRUE
    /\ m_cands = {}
    /\ m_order = <<>>
    /\ m_matched = None
    /\ m_support = 0
    /\ m_connected = FALSE

MatchInit ==
    /\ m_pc = "row"
    /\ m_donor \in DeclaredPool
    /\ m_original \in SupportPool
    /\ m_cell = m_original
    /\ m_hasCol \in BOOLEAN
    /\ m_hasCol \/ m_original = NaNCell
    /\ m_cands \in {S \in SUBSET CandidatePool : Cardinality(S) <= MaxCands}
    /\ m_order \in Orders(m_cands)
    /\ m_matched = None
    /\ m_support = 0
    /\ m_connected = FALSE

\* lines 222-223, for the cell of the row: a table without the column keeps
\* the cell it has
RewriteSupport(cell, hasCol) == IF hasCol THEN ToNumericFillna(cell) ELSE cell

ResolveRow ==
    /\ m_pc = "row"
    /\ m_cell' = RewriteSupport(m_cell, m_hasCol)
    /\ m_matched' = Matcher(m_donor, m_cands, m_order)
    /\ m_support' = ResolveSupport(SupportCell(m_original, m_hasCol))
    /\ m_connected' = IsConnectedPair(m_matched', m_support')
    /\ m_pc' = "done"
    /\ UNCHANGED <<m_donor, m_original, m_hasCol, m_cands, m_order>>
    /\ UNCHANGED <<svars, gvars, tvars, evars>>

MatchNext == ResolveRow

(***************************************************************************)
(* create_network_graph: inputs.                                           *)
(***************************************************************************)
\* a cell of donations_df['סכום']: a number, or a value of another type
Amount(n) == [ok |-> TRUE, val |-> n]
BadAmount == [ok |-> FALSE, val |-> 0]

\* a cell of donations_df['תאריך']: a date (a day number), NaT, or a str
Date(d) == [kind |-> "date", day |-> d]
NaT == [kind |-> "nat", day |-> 0]
BadDate == [kind |-> "str", day |-> 0]

DonationRow(n, a, d) == [name |-> n, amount |-> a, date |-> d]

\* the contribution ledger every donations_df of the model is a selection
\* of rows of, in this order
DonationRows ==
    << DonationRow(<<"d">>, Amount(1000), Date(1)),
       DonationRow(<<"d">>, Amount(2000), Date(2)),
       DonationRow(<<"e">>, BadAmount, Date(1)),
       DonationRow(<<"e">>, Amount(25000), BadDate),
       DonationRow(<<" ">>, Amount(1000), NaT),
       DonationRow(NaN, Amount(1000), Date(1)) >>

\* the rows of DonationRows picked by the index set I, in ledger order
RECURSIVE Selection(_, _)
Selection(rows, I) ==
    IF rows = <<>> THEN <<>>
    ELSE LET init == Selection(SubSeq(rows, 1, Len(rows) - 1), I)
         IN  IF Len(rows) \in I THEN Append(init, rows[Len(rows)]) ELSE init

DonationTables == {Selection(DonationRows, I) : I \in SUBSET DOMAIN DonationRows}

PartialFunctions(D, R) == UNION {[K -> R] : K \in SUBSET D}

\* donor_connections: contributor -> connection count
ConnectionDicts ==
    {f \in PartialFunctions({<<"d">>, <<"e">>}, {0, 1, 2}) :
        <<"e">> \in DOMAIN f => f[<<"e">>] = 1}

\* widows_df['שם '].unique()
WidowTables == { {<<"w">>}, {<<"v">>, <<"w">>} }

\* widow_to_donor_mapping
WidowMappings ==
    {f \in PartialFunctions({<<"v">>, <<"w">>}, {<<"d">>, <<"e">>}) :
        <<"v">> \in DOMAIN f => f[<<"v">>] = <<"e">>}

\* rows of real_widows_df: (widow_row['שם '], widow_row['תורם'])
RealRowPool ==
    { <<<<"w">>, <<"d">>>>, <<<<"v">>, <<"e">>>>, <<<<"v">>, <<"d">>>> }

(***************************************************************************)
(* create_network_graph: nodes.                                            *)
(***************************************************************************)
donor_color == "#2563eb"
widow_color == "#f43f5e"
grey_color == "#9ca3af"
edge_color_1000 == "#fbbf24"
edge_color_2000 == "#2563eb"
edge_color_other == "#a3a3a3"

\* lines 29-31: dropna, != '', .str.strip() != ''
CleanDonations(df) ==
    SelectSeq(df, LAMBDA r : r.name # NaN /\ r.name # <<>> /\ Strip(r.name) # <<>>)

DonorsOf(clean) == {clean[k].name : k \in DOMAIN clean}

\* lines 39-40
DonorsWithConnections(conns, actual) == ((DOMAIN conns) \ {<<"n", "a", "n">>}) \cap actual

MaxOf(S) == CHOOSE m \in S : \A x \in S : x <= m

\* NodeSize with the bonus of one connection for every count
NodeSizeCapped(donor, conns) ==
    LET max_connections == IF DOMAIN conns = {} THEN 0
                           ELSE MaxOf({conns[k] : k \in DOMAIN conns})
        connection_count == IF donor \in DOMAIN conns THEN conns[donor] ELSE 1
    IN  IF connection_count \in 1..max_connections
        THEN 20 + 4 ELSE 20

\* lines 44-50 and 62-63: node_size of a contributor with connections
NodeSize(donor, conns) ==
    LET max_connections == IF DOMAIN conns = {} THEN 0
                           ELSE MaxOf({conns[k] : k \in DOMAIN conns})
        connection_count == IF donor \in DOMAIN conns THEN conns[donor] ELSE 1
    IN  IF connection_count \in 1..max_connections
        THEN 20 + connection_count * 4 ELSE 20

\* CircleX with radius = 600
CircleXWide(i, n) ==
    CASE i = 0 -> 600
      [] n = 2 /\ i = 1 -> -600
      [] n = 3 -> -300
      [] n = 4 /\ i = 2 -> -600
      [] OTHER -> 0

\* 200 * cos(angle) and 200 * sin(angle) for angle = (i / n) * 2 * 3.14159,
\* rounded to the nearest integer
CircleX(i, n) ==
    CASE i = 0 -> 200
      [] n = 2 /\ i = 1 -> -200
      [] n = 3 -> -100
      [] n = 4 /\ i = 2 -> -200
      [] OTHER -> 0

CircleY(i, n) ==
    CASE i = 0 -> 0
      [] n = 2 /\ i = 1 -> 0
      [] n = 3 /\ i = 1 -> 173
      [] n = 3 /\ i = 2 -> -173
      [] n = 4 /\ i = 1 -> 200
      [] n = 4 /\ i = 3 -> -200
      [] OTHER -> 0

NodeId(kind, name) == [kind |-> kind, name |-> name]

Node(id, label, size, color, shape, x, y) ==
    [id |-> id, label |-> label, size |-> size, color |-> color,
     shape |-> shape, x |-> x, y |-> y]

\* y of the i-th (from 0) of n nodes of a vertical line
LineY(i, n) == 0 + (i * 40) - (n * 20)

\* lines 58-80, for the list donors_with_connections_list
ConnectedDonorNodes(list, conns) ==
    [k \in 1..Len(list) |->
        Node(NodeId("donor", list[k]), list[k], NodeSize(list[k], conns),
             donor_color, "circle",
             0 + CircleX(k - 1, Len(list)), 0 + CircleY(k - 1, Len(list)))]

\* lines 86-99, 120-133, 139-152: a vertical line of nodes
LineNodes(list, kind, size, color, shape, x) ==
    [k \in 1..Len(list) |->
        Node(NodeId(kind, list[k]), list[k], size, color, shape,
             x, LineY(k - 1, Len(list)))]

\* lines 105-114
WidowsWithConnections(mapping, actual) ==
    {w \in DOMAIN mapping : mapping[w] \in actual}

(***************************************************************************)
(* create_network_graph: edges.                                            *)
(***************************************************************************)
\* donations_df_clean[donations_df_clean['שם התורם'] == donor_name]
RowsOf(clean, donor) == SelectSeq(clean, LAMBDA r : r.name = donor)

\* sort_values('תאריך', ascending=False) compares a str with a date
SortRaises(rows) ==
    /\ Len(rows) >= 2
    /\ \E k \in DOMAIN rows : rows[k].date.kind = "str"
    /\ \E k \in DOMAIN rows : rows[k].date.kind = "date"

\* the rows sort_values('תאריך', ascending=False).iloc[0] can return: a row
\* of the latest date, NaT last.  The sort is the default kind='quicksort',
\* which is not stable: among rows of the same date any one can come first.
\* NaT rows are appended after the sort in input order.
LastRows(rows) ==
    LET dated == {k \in DOMAIN rows : rows[k].date.kind # "nat"}
        best == IF dated = {}
                THEN {k \in DOMAIN rows : \A j \in DOMAIN rows : k <= j}
                ELSE {k \in dated : \A j \in dated : rows[j].date.day <= rows[k].date.day}
    IN  {rows[k] : k \in best}

\* line 166 divides a non-number, or line 182 calls strftime on a str
RowRaises(row) == ~row.amount.ok \/ row.date.kind = "str"

Min2(a, b) == IF a <= b THEN a ELSE b
Max2(a, b) == IF a >= b THEN a ELSE b

\* EdgeWidth without the upper clamp
EdgeWidthUnclamped(last_amount) == Max2(10000, last_amount)

\* EdgeColor by range: up to 1000, up to 2000, above
EdgeColorByRange(last_amount) ==
    IF last_amount <= 1000 THEN edge_color_1000
    ELSE IF last_amount <= 2000 THEN edge_color_2000
    ELSE edge_color_other

\* edge_width = max(1, min(8, (last_amount / 1000) / 10)), in 1/10000
EdgeWidth(last_amount) == Max2(10000, Min2(80000, last_amount))

\* lines 169-174
EdgeColor(last_amount) ==
    IF last_amount = 1000 THEN edge_color_1000
    ELSE IF last_amount = 2000 THEN edge_color_2000
    ELSE edge_color_other

Edge(donor, widow_n, last_row) ==
    [source |-> NodeId("donor", donor), target |-> NodeId("widow", widow_n),
     color |-> EdgeColor(last_row.amount.val),
     width |-> EdgeWidth(last_row.amount.val),
     title |-> [amount |-> last_row.amount.val, date |-> last_row.date]]

Result(ns, es, count) == [nodes |-> ns, edges |-> es, count |-> count]

\* the except branch of line 189 with partial lists returned
OnExceptionPartial(ns, es, count) == Result(ns, es, count)

\* lines 189-191: what the except branch returns
OnException(ns, es, count) == Result(<<>>, <<>>, 0)

(***************************************************************************)
(* create_network_graph: the steps.                                        *)
(***************************************************************************)
GraphIdle ==
    /\ g_pc = "idle"
    /\ donations_df_clean = <<>>
    /\ donor_connections = <<>>
    /\ donor_nodes = {}
    /\ widow_nodes = {}
    /\ g_nodes = <<>>
    /\ g_edges = <<>>
    /\ connections_count = 0
    /\ g_rows = 0
    /\ g_raised = "none"
    /\ g_result = Result(<<>>, <<>>, 0)

GraphInit ==
    /\ g_pc = "start"
    /\ donations_df_clean = <<>>
    /\ donor_connections \in ConnectionDicts
    /\ donor_nodes = {}
    /\ widow_nodes = {}
    /\ g_nodes = <<>>
    /\ g_edges = <<>>
    /\ connections_count = 0
    /\ g_rows = 0
    /\ g_raised = "none"
    /\ g_result = Result(<<>>, <<>>, 0)

\* lines 15-152: the nodes of the four regions.  donations_df, widows_df and
\* widow_to_donor_mapping are the arguments; hasNameCol says whether
\* widows_df has the column 'שם '.
BuildGraphNodes ==
    /\ g_pc = "start"
    /\ \E donations_df \in DonationTables, widows_df \in WidowTables,
          widow_to_donor_mapping \in WidowMappings, hasNameCol \in BOOLEAN :
         LET clean == CleanDonations(donations_df)
             actual == DonorsOf(clean)
             with == DonorsWithConnections(donor_connections, actual)
             without == actual \ with
             wwith == WidowsWithConnections(widow_to_donor_mapping, actual)
             wwithout == widows_df \ wwith
         IN  \E l1 \in Orders(with), l2 \in Orders(without) :
               LET donorNodes ==
                       ConnectedDonorNodes(l1, donor_connections)
                       \o LineNodes(l2, "donor", 20, grey_color, "circle", -600)
               IN  /\ donations_df_clean' = clean
                   /\ donor_nodes' = actual
                   /\ IF hasNameCol
                      THEN \E l3 \in Orders(wwith), l4 \in Orders(wwithout) :
                             /\ g_nodes' = donorNodes
                                  \o LineNodes(l3, "widow", 25, widow_color, "square", 600)
                                  \o LineNodes(l4, "widow", 20, grey_color, "square", 800)
                             /\ widow_nodes' = wwith \cup wwithout
                             /\ g_pc' = "edges"
                             /\ UNCHANGED <<g_raised, g_result>>
                      ELSE \* widows_df['שם '] raises KeyError at line 102
                           /\ g_nodes' = donorNodes
                           /\ widow_nodes' = {}
                           /\ g_raised' = "table"
                           /\ g_result' = OnException(g_nodes', g_edges, connections_count)
                           /\ g_pc' = "returned"
    /\ UNCHANGED <<donor_connections, g_edges, connections_count, g_rows>>
    /\ UNCHANGED <<svars, mvars, tvars, evars>>

\* lines 156-185: one iteration of for i, widow_row in real_widows_df.iterrows()
EdgeRow ==
    /\ g_pc = "edges"
    /\ g_rows < MaxRealRows
    /\ \E row \in RealRowPool :
         LET widow_n == row[1]
             donor_name == row[2]
             donor_donations == RowsOf(donations_df_clean, donor_name)
         IN  /\ g_rows' = g_rows + 1
             /\ IF donor_name \in donor_nodes /\ widow_n \in widow_nodes
                   /\ donor_donations # <<>>
                THEN \E last \in LastRows(donor_donations) :
                       IF SortRaises(donor_donations) \/ RowRaises(last)
                       THEN /\ g_raised' = "row"
                            /\ g_result' = OnException(g_nodes, g_edges, connections_count)
                            /\ g_pc' = "returned"
                            /\ UNCHANGED <<g_edges, connections_count>>
                       ELSE /\ g_edges' = Append(g_edges,
                                   Edge(donor_name, widow_n, last))
                            /\ connections_count' = connections_count + 1
                            /\ UNCHANGED <<g_pc, g_raised, g_result>>
                ELSE UNCHANGED <<g_pc, g_edges, connections_count, g_raised, g_result>>
    /\ UNCHANGED <<donations_df_clean, donor_connections, donor_nodes,
                   widow_nodes, g_nodes>>
    /\ UNCHANGED <<svars, mvars, tvars, evars>>

\* line 187: return nodes, edges, connections_count
ReturnGraph ==
    /\ g_pc = "edges"
    /\ g_result' = Result(g_nodes, g_edges, connections_count)
    /\ g_pc' = "returned"
    /\ UNCHANGED <<donations_df_clean, donor_connections, donor_nodes,
                   widow_nodes, g_nodes, g_edges, connections_count, g_rows,
                   g_raised>>
    /\ UNCHANGED <<svars, mvars, tvars, evars>>

GraphNext == BuildGraphNodes \/ EdgeRow \/ ReturnGraph

(***************************************************************************)
(* One edge of create_network_graph (lines 161-185) on its own: the rows   *)
(* of one contributor, the row the sort puts first, and the edge styled    *)
(* from it, for every table of the pools.                                  *)
(***************************************************************************)
\* rows of one contributor a table holds at most
MaxDonorRows == 2

\* values of donations_df['סכום']
AmountPool ==
    {-1000, 0, 999, 1000, 1001, 1500, 2000, 3000, 10000, 45000, 80000, 1000000}

\* values of donations_df['תאריך']
DatePool == {Date(1), Date(2), NaT}

DonorRowPool == {DonationRow(<<"d">>, Amount(a), d) : a \in AmountPool, d \in DatePool}

NoRow == DonationRow(NaN, BadAmount, NaT)

NoEdge == Edge(NaN, NaN, NoRow)

EdgeIdle ==
    /\ e_pc = "idle"
    /\ e_donations = <<>>
    /\ e_last = NoRow
    /\ e_edge = NoEdge

EdgeInit ==
    /\ e_pc = "start"
    /\ e_donations = <<>>
    /\ e_last = NoRow
    /\ e_edge = NoEdge

\* lines 161-162: the rows of the contributor, not empty
FilterDonations ==
    /\ e_pc = "start"
    /\ e_donations' \in SeqsUpTo(DonorRowPool, MaxDonorRows) \ {<<>>}
    /\ e_pc' = "sort"
    /\ UNCHANGED <<e_last, e_edge>>
    /\ UNCHANGED <<svars, mvars, gvars, tvars>>

\* line 163
PickLastRow ==
    /\ e_pc = "sort"
    /\ e_last' \in LastRows(e_donations)
    /\ e_pc' = "style"
    /\ UNCHANGED <<e_donations, e_edge>>
    /\ UNCHANGED <<svars, mvars, gvars, tvars>>

\* lines 164-184
StyleEdge ==
    /\ e_pc = "style"
    /\ e_edge' = Edge(<<"d">>, <<"w">>, e_last)
    /\ e_pc' = "done"
    /\ UNCHANGED <<e_donations, e_last>>
    /\ UNCHANGED <<svars, mvars, gvars, tvars>>

EdgeNext == FilterDonations \/ PickLastRow \/ StyleEdge

(***************************************************************************)
(* The name pipeline of the matcher (lines 236-241, 277-321) on its own:   *)
(* one declared name against a ledger of one name, for every text put      *)
(* together from the pieces of the pool.                                   *)
(***************************************************************************)
\* pieces a declared name is put together from, at most
MaxPieces == 4

PiecePool ==
    { <<" ">>, <<"a">>, BAAM, AMUTAT, HEVRA, <<"het", "bet">>, <<"resh", "he">> }

RECURSIVE Concat(_)
Concat(ps) == IF ps = <<>> THEN <<>> ELSE Head(ps) \o Concat(Tail(ps))

\* values of almanot_df['תורם']
RawTexts == {Concat(ps) : ps \in SeqsUpTo(PiecePool, MaxPieces)} \cup {NaN}

\* the name of donations_df['שם']
LedgerTextPool == { <<"a", " ", "a">>, <<" ", "a">> }

\* the loop of lines 294-303 runs its body: no exact match, and the partial
\* loop left matched_donor falsy
SuffixLoopRuns(donor, cands, ord) ==
    /\ donor # NaN
    /\ Normalize(donor) \notin cands
    /\ cands # {}
    /\ ~Truthy(FirstIn(ord, {c \in cands : Tier2(Normalize(donor), c)}, None))

TextIdle ==
    /\ t_pc = "idle"
    /\ t_raw = NaN
    /\ t_ledger = <<>>
    /\ t_key = None
    /\ t_clean = None
    /\ t_matched = None

TextInit ==
    /\ t_pc = "start"
    /\ t_raw \in RawTexts
    /\ t_ledger \in LedgerTextPool
    /\ t_key = None
    /\ t_clean = None
    /\ t_matched = None

\* lines 277-279: donor_str, for a declared name that is not null
NormalizeName ==
    /\ t_pc = "start"
    /\ IF t_raw = NaN
       THEN t_key' = t_key /\ t_pc' = "done"
       ELSE t_key' = Normalize(t_raw) /\ t_pc' = "match"
    /\ UNCHANGED <<t_raw, t_ledger, t_clean, t_matched>>
    /\ UNCHANGED <<svars, mvars, gvars, evars>>

\* lines 281-321 against all_donors = {str(ledger name).strip()}
MatchName ==
    /\ t_pc = "match"
    /\ LET cands == LedgerDonors(<<t_ledger>>)
           ord == <<Normalize(t_ledger)>>
       IN  /\ t_matched' = Matcher(t_raw, cands, ord)
           /\ t_clean' = IF SuffixLoopRuns(t_raw, cands, ord)
                         THEN StripSuffixes(t_key) ELSE t_clean
    /\ t_pc' = "done"
    /\ UNCHANGED <<t_raw, t_ledger, t_key>>
    /\ UNCHANGED <<svars, mvars, gvars, evars>>

TextNext == NormalizeName \/ MatchName

(***************************************************************************)
(* Specifications.                                                         *)
(***************************************************************************)
Init == SectionInit /\ MatchIdle /\ GraphIdle /\ TextIdle /\ EdgeIdle

Next == SectionNext

\* create_network_section, one call
Spec == Init /\ [][Next]_vars

\* the loop body of create_network_section, one row
MatchSpecInit == SectionIdle /\ MatchInit /\ GraphIdle /\ TextIdle /\ EdgeIdle

MatchSpec == MatchSpecInit /\ [][MatchNext]_vars

\* create_network_graph, one call
GraphSpecInit == SectionIdle /\ MatchIdle /\ GraphInit /\ TextIdle /\ EdgeIdle

GraphSpec == GraphSpecInit /\ [][GraphNext]_vars

\* one edge of create_network_graph
EdgeSpecInit == SectionIdle /\ MatchIdle /\ GraphIdle /\ TextIdle /\ EdgeInit

EdgeSpec == EdgeSpecInit /\ [][EdgeNext]_vars

\* the name pipeline of create_network_section
TextSpecInit == SectionIdle /\ MatchIdle /\ GraphIdle /\ TextInit /\ EdgeIdle

TextSpec == TextSpecInit /\ [][TextNext]_vars

(***************************************************************************)
(* Properties of create_network_section.                                   *)
(***************************************************************************)
\* a row with a non-null beneficiary name has just been read
RowRead == rows_read' = rows_read + 1 /\ widow_name' # NaN

\* C1: a row whose resolved monthly support is <= 0 puts its beneficiary in
\* unconnected_widows and appends no edge (nor connects anything), whatever
\* the matcher returned for it.
ZeroSupportExclusion ==
    [][(RowRead /\ monthly_support' <= 0) =>
          /\ widow_name' \in unconnected_widows'
          /\ edges' = edges
          /\ connected_donors' = connected_donors
          /\ connected_widows' = connected_widows]_vars

\* a row with support <= 0 whose declared name matched a candidate was read
\* and its beneficiary is unconnected
ZeroSupportMatchedRow ==
    /\ rows_read >= 1
    /\ widow_name # NaN
    /\ monthly_support <= 0
    /\ Truthy(matched_donor)
    /\ matched_donor \in all_donors
    /\ widow_name \in unconnected_widows
    /\ edges = <<>>

\* C2: when the trimmed declared name is a member of the candidate set, the
\* matcher returns that member, in every iteration order and whatever other
\* candidates contain it or are contained in it.
ExactMatchPriority ==
    (m_pc = "done" /\ m_donor # NaN /\ Normalize(m_donor) \in m_cands)
        => m_matched = Normalize(m_donor)

\* the exact candidate was returned although another candidate, earlier in
\* the iteration order, passes the partial test
ExactMatchBehindPartial ==
    /\ m_pc = "done"
    /\ m_donor # NaN
    /\ Normalize(m_donor) \in m_cands
    /\ m_order[1] # Normalize(m_donor)
    /\ Tier2(Normalize(m_donor), m_order[1])
    /\ m_matched = Normalize(m_donor)

\* the candidates that pass each tier for the declared name q
Tier1Set(q, cands) == {c \in cands : c = q}
Tier2Set(q, cands) == {c \in cands : Tier2(q, c)}
Tier3Set(q, cands) == {c \in cands : Tier3(q, c)}
Tier4Set(q, cands) == {c \in cands : Tier4(q, c)}

\* the cascade as the claim states it: the result belongs to the first tier
\* that some candidate passes, and is none (the row unconnected) when no
\* candidate passes any tier
Cascade(q, cands, matched, connected) ==
    LET s1 == Tier1Set(q, cands)
        s2 == Tier2Set(q, cands)
        s3 == Tier3Set(q, cands)
        s4 == Tier4Set(q, cands)
    IN  /\ s1 # {} => matched \in s1
        /\ (s1 = {} /\ s2 # {}) => matched \in s2
        /\ (s1 = {} /\ s2 = {} /\ s3 # {}) => matched \in s3
        /\ (s1 = {} /\ s2 = {} /\ s3 = {} /\ s4 # {}) => matched \in s4
        /\ (s1 = {} /\ s2 = {} /\ s3 = {} /\ s4 = {})
               => (matched = None /\ ~connected)

\* C3: the cascade is ordered exact, partial, suffix-stripped,
\* abbreviation-folded: a tier's result is returned only if no candidate of
\* the whole set passes an earlier tier; no candidate in any tier gives none
\* and an unconnected beneficiary.
CascadeOrder ==
    (m_pc = "done" /\ m_donor # NaN)
        => Cascade(Normalize(m_donor), m_cands, m_matched, m_connected)

\* the same, for candidate sets without the empty name
CascadeOrderOfNonEmptyNames ==
    (m_pc = "done" /\ m_donor # NaN /\ <<>> \notin m_cands)
        => Cascade(Normalize(m_donor), m_cands, m_matched, m_connected)

\* C4: after all rows, a candidate is in connected_donors iff a row with
\* support > 0 matched it; every other candidate is in unconnected_donors;
\* the two sets are disjoint and together are the candidate set.
ConnectedIffMatched ==
    pc = "done" =>
        /\ \A c \in all_donors : c \in connected_donors <=> c \in hist_matched
        /\ unconnected_donors = all_donors \ connected_donors
        /\ connected_donors \cap unconnected_donors = {}
        /\ connected_donors \cup unconnected_donors = all_donors

\* the same, for the candidates other than the empty name
ConnectedIffMatchedNonEmptyNames ==
    pc = "done" =>
        /\ \A c \in all_donors \ {<<>>} :
               c \in connected_donors <=> c \in hist_matched
        /\ unconnected_donors = all_donors \ connected_donors
        /\ connected_donors \cap unconnected_donors = {}
        /\ connected_donors \cup unconnected_donors = all_donors

\* C5: the edge list holds at most one edge per (contributor, beneficiary)
\* pair.
OneEdgePerPair ==
    \A a, b \in DOMAIN edges :
        (edges[a].from = edges[b].from /\ edges[a].to = edges[b].to) => a = b

PairsOf(es) == {<<es[k].source, es[k].target>> : k \in DOMAIN es}

\* C6: the connection count returned is the number of distinct
\* (contributor, beneficiary) pairs connected, a pair repeated in
\* real_widows_df counted once.
CountIsDistinctPairs ==
    (g_pc = "returned" /\ g_raised = "none")
        => g_result.count = Cardinality(PairsOf(g_result.edges))

\* the connection count donor_connections gives a contributor, 0 for none
CountGiven(donor) ==
    IF donor \in DOMAIN donor_connections THEN donor_connections[donor] ELSE 0

PlacedConnected(n) == n.color = donor_color /\ n.x \in -200..200

PlacedUnconnected(n) == n.color = grey_color /\ n.x = -600

\* C7: a contributor node is placed and coloured as connected iff the count
\* donor_connections gives it is > 0; with count 0 or no count it is in the
\* unconnected lane.
ConnectedPlacementIffCount ==
    g_pc = "edges" =>
        \A k \in DOMAIN g_nodes :
            g_nodes[k].id.kind = "donor" =>
                /\ PlacedConnected(g_nodes[k]) <=> CountGiven(g_nodes[k].id.name) > 0
                /\ PlacedUnconnected(g_nodes[k]) <=> CountGiven(g_nodes[k].id.name) = 0

\* the same, for a donor_connections without a count of 0
ConnectedPlacementOfPositiveCounts ==
    (g_pc = "edges" /\ \A d \in DOMAIN donor_connections : donor_connections[d] > 0) =>
        \A k \in DOMAIN g_nodes :
            g_nodes[k].id.kind = "donor" =>
                /\ PlacedConnected(g_nodes[k]) <=> CountGiven(g_nodes[k].id.name) > 0
                /\ PlacedUnconnected(g_nodes[k]) <=> CountGiven(g_nodes[k].id.name) = 0

\* C8: whenever an exception is raised during the assembly, the call still
\* returns, and returns exactly the empty result: no node, no edge, count 0.
FailureGivesEmptyResult ==
    g_raised # "none" =>
        /\ g_pc = "returned"
        /\ g_result = Result(<<>>, <<>>, 0)

\* a row raised after nodes and an edge had been built, and the empty result
\* was returned
FailureAfterPartialBuild ==
    /\ g_pc = "returned"
    /\ g_raised = "row"
    /\ g_nodes # <<>>
    /\ g_edges # <<>>
    /\ connections_count > 0
    /\ g_result = Result(<<>>, <<>>, 0)

\* C9: a malformed contribution row is skipped: what was built from the
\* well-formed rows is still returned, the result is not the empty snapshot.
MalformedRowSkipped ==
    (g_pc = "returned" /\ g_raised = "row") =>
        /\ g_result.nodes = g_nodes
        /\ \A k \in DOMAIN g_edges :
               \E j \in DOMAIN g_result.edges : g_result.edges[j] = g_edges[k]

(***************************************************************************)
(* Determinism of create_network_section.                                  *)
(***************************************************************************)
\* C11: for a beneficiary table of one row, the entities with their
\* categories and the edges are the same in every iteration order of the
\* candidate set: the row is connected in every order or in none, and when
\* connected it is connected to the same contributor.
SameOutputInEveryOrder ==
    m_pc = "done" =>
        \A o \in Orders(m_cands) :
            LET m == Matcher(m_donor, m_cands, o)
            IN  /\ IsConnectedPair(m, m_support) = m_connected
                /\ m_connected => m = m_matched

(***************************************************************************)
(* Layout of create_network_graph.                                         *)
(***************************************************************************)
\* the category the layout gave a node: a contributor by the set
\* donors_with_connections, a beneficiary by the colour of its list
GroupOf(n) ==
    IF n.id.kind = "donor"
    THEN IF n.id.name \in DonorsWithConnections(donor_connections, donor_nodes)
         THEN "donor_connected" ELSE "donor_unconnected"
    ELSE IF n.color = widow_color THEN "widow_connected" ELSE "widow_unconnected"

\* the x values the claim designates for a category
RegionX(group) ==
    CASE group = "donor_unconnected" -> {-600}
      [] group = "donor_connected" -> -200..200
      [] group = "widow_connected" -> {600}
      [] group = "widow_unconnected" -> {800}

Groups == {"donor_unconnected", "donor_connected", "widow_connected", "widow_unconnected"}

\* C12: every node has its x in the bound of its category (-600, [-200, 200],
\* 600, 800) and in the bound of no other category.
RegionsSeparated ==
    \A k \in DOMAIN g_nodes :
        \A g \in Groups : g_nodes[k].x \in RegionX(g) <=> g = GroupOf(g_nodes[k])

\* the node list holds a node of each of the four categories
FourRegionsPlaced ==
    /\ g_pc = "edges"
    /\ Len(g_nodes) = 4
    /\ \A g \in Groups : \E k \in DOMAIN g_nodes : GroupOf(g_nodes[k]) = g

(***************************************************************************)
(* The node list of create_network_section.                                *)
(***************************************************************************)
\* C13: in the node list every id appears exactly once, so it carries
\* exactly one of the four groups.
NodeIdsUnique ==
    pc = "done" =>
        \A a, b \in DOMAIN nodes : nodes[a].id = nodes[b].id => a = b

\* the same, for the contributor nodes alone
DonorNodeIdsUnique ==
    pc = "done" =>
        \A a, b \in DOMAIN nodes :
            (/\ nodes[a].group \in {"donor_connected", "donor_unconnected"}
             /\ nodes[b].group \in {"donor_connected", "donor_unconnected"}
             /\ nodes[a].id = nodes[b].id) => a = b

(***************************************************************************)
(* The edge of create_network_graph: width, colour, the row chosen.        *)
(***************************************************************************)
\* C14: the width of the edge lies in [1, 8] (here in 1/10000) and is
\* non-decreasing in the amount: it is no smaller than the width computed for
\* any smaller amount and no larger than that for any larger amount.
WidthClampedMonotone ==
    e_pc = "done" =>
        /\ e_edge.width >= 10000
        /\ e_edge.width <= 80000
        /\ \A a \in AmountPool :
               /\ a <= e_edge.title.amount => EdgeWidth(a) <= e_edge.width
               /\ a >= e_edge.title.amount => EdgeWidth(a) >= e_edge.width

\* an edge was styled from an amount above the upper clamp
WidthAtUpperClamp ==
    /\ e_pc = "done"
    /\ e_edge.title.amount > 80000
    /\ e_edge.width = 80000

\* C15: the colour of the edge is that of tier "1000" exactly when the
\* amount is 1000, that of tier "2000" exactly when it is 2000, and that of
\* tier "other" for every other amount.
ColourByExactAmount ==
    e_pc = "done" =>
        /\ e_edge.color = edge_color_1000 <=> e_edge.title.amount = 1000
        /\ e_edge.color = edge_color_2000 <=> e_edge.title.amount = 2000
        /\ e_edge.color = edge_color_other <=> e_edge.title.amount \notin {1000, 2000}

\* an edge of an amount strictly between 1000 and 2000 has the colour of
\* tier "other"
ColourOfAmountBetweenTiers ==
    /\ e_pc = "done"
    /\ e_edge.title.amount = 1500
    /\ e_edge.color = edge_color_other

\* the positions of the rows with a date, and of those with the latest date
DatedRows(rows) == {k \in DOMAIN rows : rows[k].date.kind # "nat"}

LatestRows(rows) ==
    {k \in DatedRows(rows) :
        \A j \in DatedRows(rows) : rows[j].date.day <= rows[k].date.day}

LatestDateChosen ==
    e_pc \in {"style", "done"} =>
        /\ e_last.date.kind = "nat" => DatedRows(e_donations) = {}
        /\ DatedRows(e_donations) # {} =>
               \E k \in LatestRows(e_donations) : e_last = e_donations[k]
        /\ e_pc = "done" =>
               /\ e_edge.title.amount = e_last.amount.val
               /\ e_edge.title.date = e_last.date

(***************************************************************************)
(* The name pipeline of create_network_section.                            *)
(***************************************************************************)
\* a text: a sequence of characters, none of them the marker of NaN or None
IsText(s) == \A k \in DOMAIN s : s[k] \notin {"NaN", "None"}

\* C17: the normalisation str(x).strip() gives a text for every input, the
\* null value included, and normalising its result again changes nothing;
\* donor_str, where the code computes it, is that normal form.
NormalizeIdempotent ==
    /\ IsText(Normalize(t_raw))
    /\ Normalize(Normalize(t_raw)) = Normalize(t_raw)
    /\ Normalize(Normalize(t_ledger)) = Normalize(t_ledger)
    /\ t_pc \in {"match", "done"} /\ t_raw # NaN =>
           /\ t_key = Normalize(t_raw)
           /\ Normalize(t_key) = t_key

\* a declared name with whitespace at both ends was normalised and found,
\* as the normal form of a ledger name with whitespace in front
NormalizedBothEnds ==
    /\ t_pc = "done"
    /\ t_raw = <<" ", " ", "a", " ">>
    /\ t_ledger = <<" ", "a">>
    /\ t_key = <<"a">>
    /\ t_matched = t_key

\* C18: the suffix-stripping stage (removal of each token as a substring,
\* then trim) is idempotent: applied to clean_donor, its own output, it
\* changes nothing.
SuffixStrippingIdempotent ==
    (t_pc = "done" /\ t_clean # None) => StripSuffixes(t_clean) = t_clean

\* the same, for names that hold no token split around another token: the
\* output of the stage holds no token
SuffixStrippingIdempotentUnlessRejoined ==
    (/\ t_pc = "done"
     /\ t_clean # None
     /\ ~Contains(BAAM, t_clean)
     /\ ~Contains(AMUTAT, t_clean)
     /\ ~Contains(HEVRA, t_clean)) => StripSuffixes(t_clean) = t_clean

\* runs of whitespace replaced by one space each
RECURSIVE Collapse(_)
Collapse(s) ==
    IF Len(s) < 2 THEN s
    ELSE IF IsSpace(s[1]) /\ IsSpace(s[2]) THEN Collapse(Tail(s))
    ELSE <<Head(s)>> \o Collapse(Tail(s))

\* C19: a declared name that differs from the ledger name only in the number
\* of spaces between words (and at the ends) has the same key and is
\* matched to it at the exact tier.
WhitespaceCollapsed ==
    (/\ t_pc = "done"
     /\ t_raw # NaN
     /\ Collapse(Strip(t_raw)) = Collapse(Strip(t_ledger))) =>
        /\ t_key = Normalize(t_ledger)
        /\ t_matched = Normalize(t_ledger)

\* the same, for names that are equal once trimmed
TrimmedNamesMatchExactly ==
    (/\ t_pc = "done"
     /\ t_raw # NaN
     /\ Strip(t_raw) = Strip(t_ledger)) =>
        /\ t_key = Normalize(t_ledger)
        /\ t_matched = Normalize(t_ledger)

\* C20: a row whose declared contributor name is empty once trimmed is
\* matched to no candidate and is not connected, for every candidate set
\* that is not empty and every support.
EmptyDeclaredUnconnected ==
    (/\ m_pc = "done"
     /\ m_donor # NaN
     /\ Normalize(m_donor) = <<>>
     /\ m_cands # {}) =>
        /\ m_matched = None
        /\ ~m_connected

\* the same, for a declared name that is null
NullDeclaredUnconnected ==
    (m_pc = "done" /\ m_donor = NaN) =>
        /\ m_matched = None
        /\ ~m_connected

(***************************************************************************)
(* Empty ledger names.                                                     *)
(***************************************************************************)
\* C21: a ledger name that is empty once trimmed is no candidate, is never
\* the result of the matcher and is the id of no node.
EmptyNameNoEntity ==
    pc \in {"rows", "done"} =>
        /\ <<>> \notin all_donors
        /\ matched_donor # <<>>
        /\ \A k \in DOMAIN nodes : nodes[k].id # <<>>

\* an iteration order without the empty name
WithoutEmpty(ord) == SelectSeq(ord, LAMBDA c : c # <<>>)

\* the match part of C21, for one row: a declared name, not empty, that
\* matches a candidate when the ledgers hold no empty name matches the same
\* candidate when they hold one
EmptyNameChangesNoMatch ==
    (m_pc = "done" /\ <<>> \in m_cands /\ m_donor # NaN /\ Normalize(m_donor) # <<>>) =>
        LET without == Matcher(m_donor, m_cands \ {<<>>}, WithoutEmpty(m_order))
        IN  Truthy(without) => m_matched = without

(***************************************************************************)
(* The caller's tables.                                                    *)
(***************************************************************************)
\* C22: after the call the beneficiary table holds the values it held
\* before: the support cell of the row is the cell the caller passed.
InputTableUnchanged ==
    m_pc = "done" => m_cell = m_original

\* the same, for a cell that holds a number, and for a table without the
\* support column
NumericCellUnchanged ==
    (m_pc = "done" /\ (m_original.kind = "num" \/ ~m_hasCol)) => m_cell = m_original

(***************************************************************************)
(* Contributor entities of create_network_section.                         *)
(***************************************************************************)
DonorGroups == {"donor_connected", "donor_unconnected"}

\* C23: contributor names that differ only by letter case or by whitespace
\* are one node, and the label of a contributor node is the name of the last
\* ledger row of its key, donor_name_mapping[id].
EntitiesDeduplicated ==
    pc = "done" =>
        /\ \A a, b \in DOMAIN nodes :
               (/\ nodes[a].group \in DonorGroups
                /\ nodes[b].group \in DonorGroups
                /\ Lower(nodes[a].id) = Lower(nodes[b].id)) => a = b
        /\ \A k \in DOMAIN nodes :
               nodes[k].group \in DonorGroups =>
                   nodes[k].label = donor_name_mapping[nodes[k].id]

\* the same, for whitespace at the ends alone and without the label: the id
\* of a contributor node is trimmed, and no two contributor nodes share it
TrimmedNamesDeduplicated ==
    pc = "done" =>
        \A a, b \in DOMAIN nodes :
            (nodes[a].group \in DonorGroups /\ nodes[b].group \in DonorGroups) =>
                /\ Strip(nodes[a].id) = nodes[a].id
                /\ nodes[a].id = nodes[b].id => a = b

(***************************************************************************)
(* Vertical lines and node sizes of create_network_graph.                  *)
(***************************************************************************)
\* the x of the three vertical lines
LineXs == {-600, 600, 800}

\* the nodes of the vertical line at x, in list order
LineAt(x) == SelectSeq(g_nodes, LAMBDA n : n.x = x)

RECURSIVE SumY(_)
SumY(line) == IF line = <<>> THEN 0 ELSE Head(line).y + SumY(Tail(line))

\* consecutive nodes of a line are the same distance apart, not 0
UniformSpacing(line) ==
    \A k \in 1..(Len(line) - 1) :
        /\ line[k + 1].y - line[k].y = line[2].y - line[1].y
        /\ line[k + 1].y # line[k].y

\* C24: in each vertical line the nodes are a constant distance apart and
\* the mean of their y is the reference y, 0.
VerticalLinesCentred ==
    g_pc = "edges" =>
        \A x \in LineXs :
            Len(LineAt(x)) >= 1 =>
                /\ UniformSpacing(LineAt(x))
                /\ SumY(LineAt(x)) = 0 * Len(LineAt(x))

\* the same with the mean the code gives: the spacing is 40 and the mean of
\* y is 20 below the reference y
VerticalLinesUniform ==
    g_pc = "edges" =>
        \A x \in LineXs :
            Len(LineAt(x)) >= 1 =>
                /\ UniformSpacing(LineAt(x))
                /\ \A k \in 1..(Len(LineAt(x)) - 1) :
                       LineAt(x)[k + 1].y - LineAt(x)[k].y = 40
                /\ SumY(LineAt(x)) = (0 - 20) * Len(LineAt(x))

\* the contributor nodes of the list
DonorNodes == {k \in DOMAIN g_nodes : g_nodes[k].id.kind = "donor"}

\* C25: the size of a contributor node is the base size 20 plus a bonus of 4
\* per connection, and of two contributor nodes the one with the larger
\* connection count is strictly larger: the contributor with the maximum
\* count has the largest size.
SizeGrowsWithCount ==
    g_pc = "edges" =>
        /\ \A k \in DonorNodes :
               g_nodes[k].size = 20 + 4 * CountGiven(g_nodes[k].id.name)
        /\ \A a, b \in DonorNodes :
               CountGiven(g_nodes[a].id.name) < CountGiven(g_nodes[b].id.name)
                   => g_nodes[a].size < g_nodes[b].size

\* two contributor nodes with the counts 1 and 2 are in the list, the second
\* the larger
TwoCountsTwoSizes ==
    /\ g_pc = "edges"
    /\ \E a, b \in DonorNodes :
           /\ CountGiven(g_nodes[a].id.name) = 1
           /\ CountGiven(g_nodes[b].id.name) = 2
           /\ g_nodes[a].size = 24
           /\ g_nodes[b].size = 28

(***************************************************************************)
(* Categories and edges of create_network_graph.                           *)
(***************************************************************************)
\* the node with this id is an endpoint of an edge of the list
IsEndpoint(id, es) == \E j \in DOMAIN es : es[j].source = id \/ es[j].target = id

\* C26: in the result, a node is in a connected region iff it is an endpoint
\* of at least one edge.
ConnectedIffEndpoint ==
    (g_pc = "returned" /\ g_raised = "none") =>
        \A k \in DOMAIN g_result.nodes :
            GroupOf(g_result.nodes[k]) \in {"donor_connected", "widow_connected"}
                <=> IsEndpoint(g_result.nodes[k].id, g_result.edges)

\* the same, from the edges alone: both endpoints of every edge are nodes of
\* the result
EdgeEndpointsAreNodes ==
    (g_pc = "returned" /\ g_raised = "none") =>
        \A j \in DOMAIN g_result.edges :
            /\ \E k \in DOMAIN g_result.nodes :
                   g_result.nodes[k].id = g_result.edges[j].source
            /\ \E k \in DOMAIN g_result.nodes :
                   g_result.nodes[k].id = g_result.edges[j].target

(***************************************************************************)
(* Edges and display of create_network_section.                            *)
(***************************************************************************)
\* the list holds a node with this id and group
HasNode(id, group) == \E k \in DOMAIN nodes : nodes[k].id = id /\ nodes[k].group = group

\* C27: the source of every edge is a member of the candidate set and the
\* target a beneficiary name read from the table; once the node list is
\* built, both are ids of nodes of it, of the connected groups.
EdgesReferToEntities ==
    \A j \in DOMAIN edges :
        /\ edges[j].from \in all_donors
        /\ edges[j].to \in hist_names
        /\ pc = "done" =>
               /\ HasNode(edges[j].from, "donor_connected")
               /\ HasNode(edges[j].to, "widow_connected")

\* a call has finished with an edge, nodes of both connected groups and a
\* contributor without connection
EdgeBetweenListedNodes ==
    /\ pc = "done"
    /\ Len(edges) >= 1
    /\ HasNode(edges[1].from, "donor_connected")
    /\ HasNode(edges[1].to, "widow_connected")
    /\ \E k \in DOMAIN nodes : nodes[k].group = "donor_unconnected"

\* C28: the graph is shown only when the node list and the edge list are
\* both non-empty; a call that reaches the display step with no edge shows
\* the no-data message, whatever the node list holds.
RenderOnlyWithNodesAndEdges ==
    /\ shown = "graph" => (nodes # <<>> /\ edges # <<>>)
    /\ pc = "done" =>
           /\ shown \in {"graph", "nodata"}
           /\ shown = "graph" <=> (nodes # <<>> /\ edges # <<>>)
           /\ edges = <<>> => shown = "nodata"

\* a call with unconnected contributors and beneficiaries in the node list
\* and no edge has shown the no-data message
NoEdgeNoGraph ==
    /\ pc = "done"
    /\ edges = <<>>
    /\ \E k \in DOMAIN nodes : nodes[k].group = "donor_unconnected"
    /\ \E k \in DOMAIN nodes : nodes[k].group = "widow_unconnected"
    /\ shown = "nodata"

=============================================================================
